---- MODULE Spec2Model ----
(***************************************************************************)
(* Session orchestration and blind relay of the Turing test backend.       *)
(*                                                                         *)
(* One session id is followed through the HTTP handlers create_session,    *)
(* join_session and delete_session and through any number of websocket     *)
(* handlers (websocket_endpoint), each of which runs in steps separated by *)
(* the awaits at which asyncio may schedule another handler.  The store of *)
(* database.py is followed on its own, over several session ids.           *)
(*                                                                         *)
(* services.session.Session and services.connections.ConnectionManager are *)
(* imported by main.py; their operations are modelled from the design      *)
(* document, with the parameters main.py passes to them.                   *)
(***************************************************************************)
EXTENDS Integers, Sequences, FiniteSets

\* ------------------------------------------------------------------ bounds

\* websocket connections opened over the run
MaxHandlers == 3
\* websocket connections opened over a run in which the session is deleted
MaxAttached == 2
\* participants listed in one record of the store
MaxListed == 2
\* the join requests of one user that are in flight together
MaxRequests == 2

\* ------------------------------------------------------------ constants

\* SessionCreate.max_participants (judge + human + ai)
max_participants == 3

Users == {"u1", "u2", "u3"}
Roles == {"judge", "human", "ai"}

\* the (user_id, role) path parameters websocket clients connect with: a judge,
\* a human, and a third user who asks for either respondent role
Clients == {<<"u1", "judge">>, <<"u2", "human">>, <<"u3", "ai">>, <<"u3", "human">>}
\* the user who calls create_session, and the user who calls join_session
\* a websocket path whose role segment names none of the three roles
Strangers == {<<"u2", "observer">>}
Creators == {"u1"}
\* the users whose join requests race
Applicants == {"u2", "u3"}
Joiners == {"u2"}
Respondents == {"human", "ai"}
None == "none"

\* the session ids and join codes the store is followed over
SessionIds == {"s1", "s2"}
JoinCodes == {"ABC123", "XYZ789"}

\* a per-session assignment of the two anonymous designations
LabelSchemes ==
  { [human |-> "Participant A", ai |-> "Participant B"],
    [human |-> "Participant B", ai |-> "Participant A"] }

VARIABLES
  db,                  \* the durable record of the session (database.py)
  sessions,            \* main.sessions[session_id], the in-memory Session
  removed,             \* the Session object delete_session took out of the table
  built,               \* history: Session objects constructed for the session id
  joining,             \* the join_session requests past their checks
  active_connections,  \* manager: user_id -> registered handler (0: none)
  handlers,            \* the websocket handlers started so far
  sent,                \* the payloads the latest step handed to live handles
  triggers,            \* history: trigger_ai_join tasks created
  done,                \* history: trigger_ai_join tasks that have finished
  settled,             \* how the task that finished in the latest step ended
  last,                \* the Session call of the latest step, if any
  left,                \* history: (user_id, role) of the handlers that returned
  store,               \* MemoryDatabase.sessions, in insertion order
  ret,                 \* the latest call on the store and what it returned
  stored               \* history: session id -> the record created and not deleted

\* the state of the session orchestration, and that of the store
mainvars ==
  <<db, sessions, removed, built, joining, active_connections, handlers, sent,
    triggers, done, settled, last, left>>
dbvars == <<store, ret, stored>>
vars == <<mainvars, dbvars>>

\* --------------------------------------------------------------- Session

NoSession ==
  [exists |-> FALSE, obj |-> 0, state |-> "waiting", judge_id |-> None,
   human_id |-> None, ai_id |-> None,
   labels |-> [human |-> "Participant A", ai |-> "Participant B"]]

\* Session(session_id, judge_id): obj tells the objects constructed for the
\* session id apart
NewSession(judge_id, labels, obj) ==
  [exists |-> TRUE, obj |-> obj, state |-> "waiting", judge_id |-> judge_id,
   human_id |-> None, ai_id |-> None, labels |-> labels]

\* the occupant of the slot of a role; a tag that names no slot has none
Slot(s, role) ==
  CASE role = "judge" -> s.judge_id
    [] role = "human" -> s.human_id
    [] role = "ai"    -> s.ai_id
    [] OTHER          -> None

SetSlot(s, role, user_id) ==
  CASE role = "judge" -> [s EXCEPT !.judge_id = user_id]
    [] role = "human" -> [s EXCEPT !.human_id = user_id]
    [] role = "ai"    -> [s EXCEPT !.ai_id = user_id]
    [] OTHER          -> s

AllFilled(s) == s.judge_id # None /\ s.human_id # None /\ s.ai_id # None

\* Activate with the ai slot left out of the check
ActivateWithoutAi(s) ==
  IF s.state = "waiting" /\ s.judge_id # None /\ s.human_id # None
    THEN [s EXCEPT !.state = "active"] ELSE s

\* the check that runs after every successful assignment
Activate(s) ==
  IF s.state = "waiting" /\ AllFilled(s) THEN [s EXCEPT !.state = "active"] ELSE s

\* Session.add_participant(role, user_id): the session afterwards and the outcome
add_participant(s, role, user_id) ==
  IF role \notin Roles
    THEN [session |-> s, result |-> "invalid_role"]
  ELSE IF s.state = "completed"
    THEN [session |-> s, result |-> "terminal"]
  ELSE IF Slot(s, role) = None
    THEN [session |-> Activate(SetSlot(s, role, user_id)), result |-> "assigned"]
  ELSE IF Slot(s, role) = user_id
    THEN [session |-> s, result |-> "noop"]
  ELSE [session |-> s, result |-> "conflict"]

\* Session.get_all_participants()
get_all_participants(s) == {s.judge_id, s.human_id, s.ai_id} \ {None}

\* the externally triggered expire transition
expire(s) == [s EXCEPT !.state = "completed"]

\* Session.route_message(sender_id, data, manager): the routing decision, one
\* entry per recipient slot that is filled
route_message(s, sender_id) ==
  IF s.state = "completed" \/ sender_id = None THEN {}
  ELSE IF sender_id = s.judge_id
    THEN { [to |-> Slot(s, r), via |-> r, from |-> "judge", label |-> "Judge"] :
             r \in {x \in Respondents : Slot(s, x) # None} }
  ELSE IF sender_id = s.human_id
    THEN IF s.judge_id = None THEN {}
         ELSE { [to |-> s.judge_id, via |-> "judge", from |-> "human",
                 label |-> s.labels.human] }
  ELSE IF sender_id = s.ai_id
    THEN IF s.judge_id = None THEN {}
         ELSE { [to |-> s.judge_id, via |-> "judge", from |-> "ai",
                 label |-> s.labels.ai] }
  ELSE {}

\* how Session.route_message ends for this sender
route_outcome(s, sender_id) ==
  IF s.state = "completed" THEN "terminal"
  ELSE IF sender_id \notin get_all_participants(s) THEN "unknown_sender"
  ELSE "routed"

\* ----------------------------------------------------- ConnectionManager

\* manager.connect(user_id, websocket): the new handle replaces any earlier one
connect(reg, user_id, h) == [reg EXCEPT ![user_id] = h]

\* manager.disconnect(user_id): called with the user id alone
disconnect(reg, user_id) == [reg EXCEPT ![user_id] = 0]

is_connected(reg, user_id) == reg[user_id] # 0

\* ------------------------------------------------------------- payloads

\* the respondent identities a payload carries next to their role
RolePairs(s) ==
  { <<Slot(s, r), r>> : r \in {x \in Respondents : Slot(s, x) # None} }

\* {"type": "session_state", "state", "your_role", "participants": {...}}
SessionStateMsg(s, user_id, role) ==
  [kind |-> "session_state", session |-> s.obj, to |-> user_id,
   to_judge |-> (user_id = s.judge_id),
   via |-> "self", from |-> None, label |-> None,
   subject |-> user_id, role |-> role, conflict |-> (Slot(s, role) \notin {None, user_id}),
   pairs |-> RolePairs(s), first |-> FALSE]

\* {"type": "user_joined" | "user_left", "user_id", "role"}, one per recipient
Notice(kind, s, recipients, user_id, role) ==
  { [kind |-> kind, session |-> s.obj, to |-> p, to_judge |-> (p = s.judge_id),
     via |-> "all", from |-> None, label |-> None,
     subject |-> user_id, role |-> role, conflict |-> (Slot(s, role) \notin {None, user_id}),
     pairs |-> IF role \in Respondents THEN {<<user_id, role>>} ELSE {},
     first |-> FALSE] :
    p \in recipients }

\* a routed message as handed to the registry
Relayed(s, d) ==
  [kind |-> "message", session |-> s.obj, to |-> d.to,
   to_judge |-> (d.to = s.judge_id),
   via |-> d.via, from |-> d.from, label |-> d.label,
   subject |-> None, role |-> None, conflict |-> FALSE, pairs |-> {},
   first |-> FALSE]

\* manager.send_to_user for every payload of msgs: a payload reaches the handle
\* registered for its recipient and is dropped when there is none
Reaching(reg, msgs) == {m \in msgs : is_connected(reg, m.to)}

\* the payloads as they arrive: each is marked when it is the first thing its
\* handle receives
Arriving(reg, msgs, hs) ==
  { [m EXCEPT !.first = hs[reg[m.to]].fresh] : m \in Reaching(reg, msgs) }

\* the handlers after the payloads arrived
Received(reg, msgs, hs) ==
  [h \in DOMAIN hs |->
     IF \E m \in Reaching(reg, msgs) : reg[m.to] = h
       THEN [hs[h] EXCEPT !.fresh = FALSE]
       ELSE hs[h]]

\* ---------------------------------------------------------------- state

NoDb == [exists |-> FALSE, creator_id |-> None, status |-> "waiting",
         participants |-> <<>>]

\* no record, and no call on the store yet
NoRecord == [session_id |-> None, join_code |-> None, participants |-> <<>>]
NoReturn == [op |-> None, session_id |-> None, participant |-> None, ok |-> FALSE]

NoCall == [op |-> None, role |-> None, user_id |-> None, result |-> None,
           signalled |-> FALSE, changed |-> FALSE, ai_before |-> None]

Init ==
  /\ db = NoDb
  /\ sessions = NoSession
  /\ removed = NoSession
  /\ built = 0
  /\ joining = {}
  /\ active_connections = [u \in Users |-> 0]
  /\ handlers = <<>>
  /\ sent = {}
  /\ triggers = 0
  /\ done = 0
  /\ settled = None
  /\ last = NoCall
  /\ left = {}
  /\ store = <<>>
  /\ ret = NoReturn
  /\ stored = [id \in SessionIds |-> NoRecord]

\* ----------------------------------------------------- HTTP handlers

\* asyncio.create_task(trigger_ai_join(session_id))
trigger_ai_join(n) == n + 1

Participant(user_id, role) == [user_id |-> user_id, role |-> role]

InDb(user_id) ==
  \E i \in 1..Len(db.participants) : db.participants[i].user_id = user_id

\* the labels a Session constructed now may carry
LabelsFor(s) == IF s.exists THEN {s.labels} ELSE LabelSchemes

\* a call of Session.add_participant as the handler op made it
Call(op, role, user_id, before, r, signalled) ==
  [op |-> op, role |-> role, user_id |-> user_id, result |-> r.result,
   signalled |-> signalled, changed |-> (r.session # before),
   ai_before |-> before.ai_id]

\* a call of Session.route_message
Routed(s, sender_id) ==
  [op |-> "route_message", role |-> None, user_id |-> sender_id,
   result |-> route_outcome(s, sender_id),
   signalled |-> FALSE, changed |-> FALSE, ai_before |-> None]

\* POST /api/sessions/create: the record is stored under a fresh session id, the
\* Session is constructed with the creator as judge and the creator is added as
\* judge once more
create_session(u) ==
  /\ ~db.exists
  /\ ~sessions.exists
  /\ built = 0
  /\ \E labels \in LabelSchemes :
       LET s0 == NewSession(u, labels, built + 1)
           r  == add_participant(s0, "judge", u)
       IN /\ sessions' = r.session
          /\ last' = Call("create_session", "judge", u, s0, r, FALSE)
  /\ built' = built + 1
  /\ db' = [exists |-> TRUE, creator_id |-> u, status |-> "waiting",
            participants |-> <<Participant(u, "judge")>>]
  /\ sent' = {}
  /\ settled' = None
  /\ UNCHANGED <<removed, joining, active_connections, handlers, triggers, done,
                 left, dbvars>>

\* POST /api/sessions/join, the checks of lines 147-173 on the path that passes
\* them: the record is found, is waiting, does not list the user and is not full
JoinPasses(u) ==
  /\ db.exists
  /\ db.status = "waiting"
  /\ ~InDb(u)
  /\ Len(db.participants) < max_participants

\* POST /api/sessions/join from add_participant_to_session on: the participant
\* is appended to the record if it is still there, the Session is found or
\* constructed with the creator of the record read before, the human role added
\* and the admission task created
JoinCompletes(u, creator_id) ==
  /\ \E labels \in LabelsFor(sessions) :
       LET s0 == IF sessions.exists THEN sessions
                 ELSE NewSession(creator_id, labels, built + 1)
           r  == add_participant(s0, "human", u)
       IN /\ sessions' = r.session
          /\ last' = Call("join_session", "human", u, s0, r, TRUE)
  /\ db' = IF db.exists
             THEN [db EXCEPT !.participants = Append(@, Participant(u, "human"))]
             ELSE db
  /\ built' = IF sessions.exists THEN built ELSE built + 1
  /\ triggers' = trigger_ai_join(triggers)
  /\ sent' = {}
  /\ settled' = None
  /\ UNCHANGED <<removed, active_connections, handlers, done, left, dbvars>>

\* join_session running to its end with no other handler in between, as it
\* does over the in-memory store, whose calls never suspend
join_session_direct(u) ==
  /\ JoinPasses(u)
  /\ JoinCompletes(u, db.creator_id)
  /\ UNCHANGED joining

\* join_session up to the await of add_participant_to_session, where a store
\* that suspends lets other handlers run: request n of the user is past its
\* checks
JoinChecks(u, n) ==
  /\ JoinPasses(u)
  /\ \A j \in joining : ~(j.user_id = u /\ j.request = n)
  /\ joining' = joining \cup
       {[user_id |-> u, creator_id |-> db.creator_id, request |-> n]}
  /\ sent' = {}
  /\ settled' = None
  /\ last' = NoCall
  /\ UNCHANGED <<db, sessions, removed, built, active_connections, handlers,
                 triggers, done, left, dbvars>>

\* the checks of a user with one request at a time
join_session_checks(u) == JoinChecks(u, 1)

\* the role of the first entry of the record that lists the user (lines 158-161)
existing_participant(u) ==
  db.participants[CHOOSE i \in 1..Len(db.participants) :
                    /\ db.participants[i].user_id = u
                    /\ \A k \in 1..(i - 1) : db.participants[k].user_id # u].role

\* a request that ended before any Session call: what it returned
Returned(op, role, user_id) ==
  [NoCall EXCEPT !.op = op, !.role = role, !.user_id = user_id]

\* join_session by a user the record lists already (lines 158-169): "Already in
\* session" and the role of the entry
join_session_listed(u) ==
  /\ db.exists
  /\ db.status = "waiting"
  /\ InDb(u)
  /\ last' = Returned("already_in_session", existing_participant(u), u)
  /\ sent' = {}
  /\ settled' = None
  /\ UNCHANGED <<db, sessions, removed, built, joining, active_connections,
                 handlers, triggers, done, left, dbvars>>

\* join_session for a record that is full (lines 172-173): 400 "Session is full"
join_session_full(u) ==
  /\ db.exists
  /\ db.status = "waiting"
  /\ ~InDb(u)
  /\ Len(db.participants) >= max_participants
  /\ last' = Returned("session_full", None, u)
  /\ sent' = {}
  /\ settled' = None
  /\ UNCHANGED <<db, sessions, removed, built, joining, active_connections,
                 handlers, triggers, done, left, dbvars>>

\* join_session after that await
join_session(u) ==
  \E j \in joining :
    /\ j.user_id = u
    /\ joining' = joining \ {j}
    /\ JoinCompletes(u, j.creator_id)

\* DELETE /api/sessions/{session_id} by its creator: the record is deleted and
\* the Session taken out of the table; the handlers that hold it keep it
delete_session(u) ==
  /\ db.exists
  /\ db.creator_id = u
  /\ db' = NoDb
  /\ sessions' = NoSession
  /\ removed' = IF sessions.exists THEN sessions ELSE removed
  /\ sent' = {}
  /\ settled' = None
  /\ last' = NoCall
  /\ UNCHANGED <<built, joining, active_connections, handlers, triggers, done,
                 left, dbvars>>

\* how the POST of trigger_ai_join can end
Outcomes == {"200", "non200", "timeout", "exception"}

\* AdmissionCall with a failed POST taking down the connection of the human
\* whose arrival created the task
AdmissionCallAborts(outcome) ==
  /\ done < triggers
  /\ done' = done + 1
  /\ settled' = outcome
  /\ active_connections' =
       IF outcome = "200" \/ sessions.human_id = None THEN active_connections
       ELSE disconnect(active_connections, sessions.human_id)
  /\ sent' = {}
  /\ last' = NoCall
  /\ UNCHANGED <<db, sessions, removed, built, joining, handlers, triggers, left,
                 dbvars>>

\* the body of a trigger_ai_join task: the POST ends one way or another and the
\* task logs it
AdmissionCall(outcome) ==
  /\ done < triggers
  /\ done' = done + 1
  /\ settled' = outcome
  /\ sent' = {}
  /\ last' = NoCall
  /\ UNCHANGED <<db, sessions, removed, built, joining, active_connections,
                 handlers, triggers, left, dbvars>>

\* ------------------------------------------------------ websocket handler

\* a handler: its path parameters, where it stands, the Session object it
\* took from the table (line 289) and whether its handle has yet to receive
\* anything
Handler(user_id, role, pc, session) ==
  [user_id |-> user_id, role |-> role, pc |-> pc, session |-> session,
   fresh |-> TRUE]

\* a handler that has returned
Closed == [user_id |-> None, role |-> None, pc |-> "closed", session |-> 0,
           fresh |-> FALSE]

\* the Session object a handler holds: the one in the table, or the one that
\* was taken out of it since
SessionOf(h) ==
  IF handlers[h].session = sessions.obj THEN sessions ELSE removed

\* WsConnect constructing the Session on every connect, without the check
\* that the session id is not yet in the table
WsConnectRebuilds(u, role) ==
  /\ Len(handlers) < MaxHandlers
  /\ \E labels \in LabelSchemes :
       LET h    == Len(handlers) + 1
           reg  == connect(active_connections, u, h)
           s0   == NewSession(None, labels, built + 1)
           r    == add_participant(s0, role, u)
           s1   == r.session
           fire == role = "human" /\ s1.ai_id = None
           others == get_all_participants(s1) \ {u}
           joined == Notice("user_joined", s1, others, u, role)
           alone  == Reaching(reg, joined) = {}
           msgs   == IF alone THEN {SessionStateMsg(s1, u, role)} ELSE joined
           hs     == Append(handlers,
                            Handler(u, role, IF alone THEN "open" ELSE "notified",
                                    s1.obj))
       IN /\ active_connections' = reg
          /\ sessions' = s1
          /\ last' = Call("connect", role, u, s0, r, fire)
          /\ triggers' = IF fire THEN trigger_ai_join(triggers) ELSE triggers
          /\ sent' = Arriving(reg, msgs, hs)
          /\ handlers' = Received(reg, msgs, hs)
  /\ built' = built + 1
  /\ settled' = None
  /\ UNCHANGED <<db, removed, joining, done, left, dbvars>>

\* lines 284-296, and 298-309 when the join notice had nobody to go to: the
\* handle is registered, the Session found or constructed, the role added, the
\* admission task created and the join notice sent to the other participants
WsConnect(u, role) ==
  /\ Len(handlers) < MaxHandlers
  /\ \E labels \in LabelsFor(sessions) :
       LET h    == Len(handlers) + 1
           reg  == connect(active_connections, u, h)
           s0   == IF sessions.exists THEN sessions
                   ELSE NewSession(None, labels, built + 1)
           r    == add_participant(s0, role, u)
           s1   == r.session
           fire == role = "human" /\ s1.ai_id = None
           others == get_all_participants(s1) \ {u}
           joined == Notice("user_joined", s1, others, u, role)
           alone  == Reaching(reg, joined) = {}
           msgs   == IF alone THEN {SessionStateMsg(s1, u, role)} ELSE joined
           hs     == Append(handlers,
                            Handler(u, role, IF alone THEN "open" ELSE "notified",
                                    s1.obj))
       IN /\ active_connections' = reg
          /\ sessions' = s1
          /\ last' = Call("connect", role, u, s0, r, fire)
          /\ triggers' = IF fire THEN trigger_ai_join(triggers) ELSE triggers
          /\ sent' = Arriving(reg, msgs, hs)
          /\ handlers' = Received(reg, msgs, hs)
  /\ built' = IF sessions.exists THEN built ELSE built + 1
  /\ settled' = None
  /\ UNCHANGED <<db, removed, joining, done, left, dbvars>>

\* lines 298-309: the snapshot goes to whichever handle the user has now
WsSnapshot(h) ==
  /\ h \in DOMAIN handlers
  /\ handlers[h].pc = "notified"
  /\ LET u    == handlers[h].user_id
         msgs == {SessionStateMsg(SessionOf(h), u, handlers[h].role)}
         hs   == [handlers EXCEPT ![h].pc = "open"]
     IN /\ sent' = Arriving(active_connections, msgs, hs)
        /\ handlers' = Received(active_connections, msgs, hs)
  /\ last' = NoCall
  /\ settled' = None
  /\ UNCHANGED <<db, sessions, removed, built, joining, active_connections,
                 triggers, done, left, dbvars>>

\* WsReceive handing the inbound text to every other participant itself, the
\* way the leave notice is handed out
WsReceiveToAll(h) ==
  /\ h \in DOMAIN handlers
  /\ handlers[h].pc = "open"
  /\ LET u    == handlers[h].user_id
         s    == SessionOf(h)
         from == CHOOSE r \in Roles \cup {None} :
                   \/ r \in Roles /\ Slot(s, r) = u
                   \/ r = None /\ \A x \in Roles : Slot(s, x) # u
         msgs == IF from = None THEN {}
                 ELSE { Relayed(s, [to |-> Slot(s, r), via |-> r,
                                    from |-> from, label |-> "Judge"]) :
                          r \in {x \in Roles : Slot(s, x) \notin {None, u}} }
     IN /\ sent' = Arriving(active_connections, msgs, handlers)
        /\ handlers' = Received(active_connections, msgs, handlers)
        /\ last' = Routed(s, u)
  /\ settled' = None
  /\ UNCHANGED <<db, sessions, removed, built, joining, active_connections,
                 triggers, done, left, dbvars>>

\* WsReceive taking the sender's slot from the role in the path of the
\* connection instead of from the user_id
WsReceiveByRole(h) ==
  /\ h \in DOMAIN handlers
  /\ handlers[h].pc = "open"
  /\ LET u    == handlers[h].user_id
         s    == SessionOf(h)
         msgs == {Relayed(s, d) : d \in route_message(s, Slot(s, handlers[h].role))}
     IN /\ sent' = Arriving(active_connections, msgs, handlers)
        /\ handlers' = Received(active_connections, msgs, handlers)
        /\ last' = Routed(s, u)
  /\ settled' = None
  /\ UNCHANGED <<db, sessions, removed, built, joining, active_connections,
                 triggers, done, left, dbvars>>

\* lines 312-314: one inbound text is routed through the Session the handler
\* holds
WsReceive(h) ==
  /\ h \in DOMAIN handlers
  /\ handlers[h].pc = "open"
  /\ LET u    == handlers[h].user_id
         s    == SessionOf(h)
         msgs == {Relayed(s, d) : d \in route_message(s, u)}
     IN /\ sent' = Arriving(active_connections, msgs, handlers)
        /\ handlers' = Received(active_connections, msgs, handlers)
        /\ last' = Routed(s, u)
  /\ settled' = None
  /\ UNCHANGED <<db, sessions, removed, built, joining, active_connections,
                 triggers, done, left, dbvars>>

\* the (user_id, role) a returning handler adds to the history: those of a
\* handler whose user holds the role
Leaving(h) ==
  IF Slot(SessionOf(h), handlers[h].role) = handlers[h].user_id
    THEN {<<handlers[h].user_id, handlers[h].role>>} ELSE {}

\* WsDisconnect putting an active session back to waiting when a participant leaves
WsDisconnectReopens(h) ==
  /\ h \in DOMAIN handlers
  /\ handlers[h].pc = "open"
  /\ LET u    == handlers[h].user_id
         s    == SessionOf(h)
         reg  == disconnect(active_connections, u)
         msgs == Notice("user_left", s, get_all_participants(s) \ {u}, u,
                        handlers[h].role)
         hs   == [handlers EXCEPT ![h] = Closed]
     IN /\ active_connections' = reg
        /\ sent' = Arriving(reg, msgs, hs)
        /\ handlers' = Received(reg, msgs, hs)
  /\ sessions' = IF sessions.state = "active"
                   THEN [sessions EXCEPT !.state = "waiting"] ELSE sessions
  /\ left' = left \cup Leaving(h)
  /\ last' = NoCall
  /\ settled' = None
  /\ UNCHANGED <<db, removed, built, joining, triggers, done, dbvars>>

\* WsDisconnect handing the leave notice to every participant through the
\* registry as it was before the handle was removed
WsDisconnectNotifiesAll(h) ==
  /\ h \in DOMAIN handlers
  /\ handlers[h].pc = "open"
  /\ LET u    == handlers[h].user_id
         s    == SessionOf(h)
         reg  == disconnect(active_connections, u)
         msgs == Notice("user_left", s, get_all_participants(s), u,
                        handlers[h].role)
         hs   == [handlers EXCEPT ![h] = Closed]
     IN /\ active_connections' = reg
        /\ sent' = Arriving(active_connections, msgs, hs)
        /\ handlers' = Received(active_connections, msgs, hs)
  /\ left' = left \cup Leaving(h)
  /\ last' = NoCall
  /\ settled' = None
  /\ UNCHANGED <<db, sessions, removed, built, joining, triggers, done, dbvars>>

\* lines 315-324: the client of this handler went away
WsDisconnect(h) ==
  /\ h \in DOMAIN handlers
  /\ handlers[h].pc = "open"
  /\ LET u    == handlers[h].user_id
         s    == SessionOf(h)
         reg  == disconnect(active_connections, u)
         msgs == Notice("user_left", s, get_all_participants(s) \ {u}, u,
                        handlers[h].role)
         hs   == [handlers EXCEPT ![h] = Closed]
     IN /\ active_connections' = reg
        /\ sent' = Arriving(reg, msgs, hs)
        /\ handlers' = Received(reg, msgs, hs)
  /\ left' = left \cup Leaving(h)
  /\ last' = NoCall
  /\ settled' = None
  /\ UNCHANGED <<db, sessions, removed, built, joining, triggers, done, dbvars>>

\* lines 311-314 raising anything but WebSocketDisconnect, as receive_text does
\* on a frame that carries no text: the exception leaves websocket_endpoint
\* past the except clause of line 315
WsFails(h) ==
  /\ h \in DOMAIN handlers
  /\ handlers[h].pc = "open"
  /\ handlers' = [handlers EXCEPT ![h] = Closed]
  /\ left' = left \cup Leaving(h)
  /\ sent' = {}
  /\ last' = NoCall
  /\ settled' = None
  /\ UNCHANGED <<db, sessions, removed, built, joining, active_connections,
                 triggers, done, dbvars>>

\* the external duration timer
Expire ==
  /\ sessions.exists
  /\ sessions.state \in {"waiting", "active"}
  /\ sessions' = expire(sessions)
  /\ sent' = {}
  /\ last' = NoCall
  /\ settled' = None
  /\ UNCHANGED <<db, removed, built, joining, active_connections, handlers,
                 triggers, done, left, dbvars>>

Next ==
  \/ \E u \in Creators : create_session(u)
  \/ \E u \in Joiners : join_session_direct(u)
  \/ \E c \in Clients : WsConnect(c[1], c[2])
  \/ \E h \in 1..MaxHandlers : WsSnapshot(h)
  \/ \E h \in 1..MaxHandlers : WsReceive(h)
  \/ \E h \in 1..MaxHandlers : WsDisconnect(h)
  \/ Expire

Spec == Init /\ [][Next]_vars

\* the session over a store whose calls suspend, with its creator deleting it
\* and with the admission tasks running to their end, over fewer connections
\* and without the duration timer
NextLife ==
  \/ \E u \in Creators : create_session(u)
  \/ \E u \in Joiners : join_session_checks(u)
  \/ \E u \in Joiners : join_session(u)
  \/ \E u \in Creators : delete_session(u)
  \/ \E c \in Clients : Len(handlers) < MaxAttached /\ WsConnect(c[1], c[2])
  \/ \E h \in 1..MaxAttached : WsSnapshot(h)
  \/ \E h \in 1..MaxAttached : WsReceive(h)
  \/ \E h \in 1..MaxAttached : WsDisconnect(h)
  \/ \E o \in Outcomes : AdmissionCall(o)

SpecLife == Init /\ [][NextLife]_vars

\* the websocket boundary: paths with any role segment, and handlers that end
\* by an exception as well as by their client going away
NextEdge ==
  \/ \E u \in Creators : create_session(u)
  \/ \E u \in Joiners : join_session_direct(u)
  \/ \E c \in Clients \cup Strangers :
       Len(handlers) < MaxAttached /\ WsConnect(c[1], c[2])
  \/ \E h \in 1..MaxAttached : WsSnapshot(h)
  \/ \E h \in 1..MaxAttached : WsReceive(h)
  \/ \E h \in 1..MaxAttached : WsDisconnect(h)
  \/ \E h \in 1..MaxAttached : WsFails(h)

SpecEdge == Init /\ [][NextEdge]_vars

\* the HTTP handlers alone over a store whose calls suspend: several users
\* join, each with several requests in flight, while the creator may delete
NextJoin ==
  \/ \E u \in Creators : create_session(u)
  \/ \E u \in Applicants : \E n \in 1..MaxRequests : JoinChecks(u, n)
  \/ \E u \in Applicants : join_session(u)
  \/ \E u \in Users : join_session_listed(u)
  \/ \E u \in Applicants : join_session_full(u)
  \/ \E u \in Creators : delete_session(u)

SpecJoin == Init /\ [][NextJoin]_vars

\* ------------------------------------------------------------ the store

\* the position of the record with this session id, 0 when there is none
Position(st, session_id) ==
  IF \E i \in 1..Len(st) : st[i].session_id = session_id
    THEN CHOOSE i \in 1..Len(st) : st[i].session_id = session_id
    ELSE 0

\* MemoryDatabase.create_session(session_data): a record under a session id
\* that is there already takes its place
db_create_session(st, session_data) ==
  IF Position(st, session_data.session_id) # 0
    THEN [st EXCEPT ![Position(st, session_data.session_id)] = session_data]
    ELSE Append(st, session_data)

\* MemoryDatabase.get_session(session_id)
get_session(st, session_id) ==
  IF Position(st, session_id) = 0 THEN NoRecord
  ELSE st[Position(st, session_id)]

\* delete_session removing the oldest record of the store
db_delete_oldest(st, session_id) ==
  [store |-> IF st = <<>> THEN st ELSE Tail(st), ok |-> st # <<>>]

\* MemoryDatabase.delete_session(session_id): the store afterwards and the
\* value returned
db_delete_session(st, session_id) ==
  IF Position(st, session_id) # 0
    THEN [store |-> SelectSeq(st, LAMBDA r : r.session_id # session_id),
          ok |-> TRUE]
    ELSE [store |-> st, ok |-> FALSE]

\* MemoryDatabase.find_session_by_join_code(join_code): the first match in
\* insertion order
find_session_by_join_code(st, join_code) ==
  IF \E i \in 1..Len(st) : st[i].join_code = join_code
    THEN st[CHOOSE i \in 1..Len(st) :
              /\ st[i].join_code = join_code
              /\ \A k \in 1..(i - 1) : st[k].join_code # join_code]
    ELSE NoRecord

\* DatabaseManager.find_session(session_id, join_code)
find_session(st, session_id, join_code) ==
  IF session_id # None THEN get_session(st, session_id)
  ELSE IF join_code # None THEN find_session_by_join_code(st, join_code)
  ELSE NoRecord

\* add_participant_to_session appending to the participants of every record,
\* as lists shared between the records would
add_participant_to_all(st, session_id, participant) ==
  IF Position(st, session_id) # 0
    THEN [store |-> [i \in 1..Len(st) |->
                       [st[i] EXCEPT !.participants = Append(@, participant)]],
          ok |-> TRUE]
    ELSE [store |-> st, ok |-> FALSE]

\* MemoryDatabase.add_participant_to_session(session_id, participant): the store
\* afterwards and the value returned
add_participant_to_session(st, session_id, participant) ==
  IF Position(st, session_id) # 0
    THEN [store |-> [st EXCEPT ![Position(st, session_id)].participants =
                                  Append(@, participant)],
          ok |-> TRUE]
    ELSE [store |-> st, ok |-> FALSE]

\* the session_doc create_session of main.py builds
SessionDoc(session_id, join_code, creator_id) ==
  [session_id |-> session_id, join_code |-> join_code,
   participants |-> <<Participant(creator_id, "judge")>>]

StoreCreate(session_id, join_code, creator_id) ==
  /\ store' = db_create_session(store, SessionDoc(session_id, join_code, creator_id))
  /\ ret' = [op |-> "create_session", session_id |-> session_id,
             participant |-> None, ok |-> TRUE]
  /\ stored' = [stored EXCEPT ![session_id] =
                                 SessionDoc(session_id, join_code, creator_id)]
  /\ UNCHANGED mainvars

StoreDelete(session_id) ==
  /\ LET r == db_delete_session(store, session_id)
     IN /\ store' = r.store
        /\ ret' = [op |-> "delete_session", session_id |-> session_id,
                   participant |-> None, ok |-> r.ok]
  /\ stored' = [stored EXCEPT ![session_id] = NoRecord]
  /\ UNCHANGED mainvars

\* the call is followed while the lists stay within MaxListed
StoreAddParticipant(session_id, user_id) ==
  /\ Len(get_session(store, session_id).participants) < MaxListed
  /\ LET r == add_participant_to_session(store, session_id,
                                         Participant(user_id, "human"))
     IN /\ store' = r.store
        /\ ret' = [op |-> "add_participant_to_session", session_id |-> session_id,
                   participant |-> Participant(user_id, "human"), ok |-> r.ok]
  /\ stored' = IF stored[session_id] = NoRecord THEN stored
               ELSE [stored EXCEPT ![session_id].participants =
                                      Append(@, Participant(user_id, "human"))]
  /\ UNCHANGED mainvars

NextDb ==
  \/ \E id \in SessionIds, c \in JoinCodes, u \in Creators : StoreCreate(id, c, u)
  \/ \E id \in SessionIds : StoreDelete(id)
  \/ \E id \in SessionIds, u \in Users : StoreAddParticipant(id, u)

SpecDb == Init /\ [][NextDb]_vars

\* ------------------------------------------------------------ properties

Rank(state) ==
  CASE state = "waiting" -> 0 [] state = "active" -> 1 [] state = "completed" -> 2

Live(h) == h \in DOMAIN handlers /\ handlers[h] # Closed

\* C1: the admission call is issued exactly once per session, on the step
\* where the human slot is first filled while the ai slot is still empty: never
\* a second time, never on a human reconnect, never when the ai joined first.
AdmissionExactlyOnce ==
  /\ triggers <= 1
  /\ last.signalled <=>
       (last.role = "human" /\ last.result = "assigned" /\ last.ai_before = None)

\* C2: a message from the human or the ai slot is delivered only to the judge
\* slot's occupant, and a message from the judge only to the occupants of the
\* human and ai slots.
RoutingInvariant ==
  \A m \in sent :
    m.kind = "message" =>
      /\ m.from \in Respondents => (m.via = "judge" /\ m.to = sessions.judge_id)
      /\ m.from = "judge" => (m.via \in Respondents /\ m.to = Slot(sessions, m.via))

\* a human's message reached the judge while a different user, connected, holds
\* the ai slot
RespondentRelayed ==
  \E m \in sent :
    /\ m.kind = "message" /\ m.from = "human"
    /\ sessions.ai_id \notin {None, sessions.human_id}
    /\ is_connected(active_connections, sessions.ai_id)

\* C3: nothing delivered to the judge's connection carries a respondent's
\* user_id next to the role human or ai.
JudgeBlind == \A m \in sent : m.to_judge => m.pairs = {}

\* C4: every judge-bound delivery of a message from a respondent slot carries
\* the one label the session gave that slot, the two slots' labels differ, and
\* the session's labels never change.
LabelsConstant ==
  /\ [](\A m \in sent :
          (m.kind = "message" /\ m.from \in Respondents) =>
            m.label = sessions.labels[m.from])
  /\ [](sessions.labels.human # sessions.labels.ai)
  /\ [][sessions.exists => sessions'.labels = sessions.labels]_vars

\* the ai's message reached the judge after a handler of the session returned
\* and with the human slot filled
LabelledAfterLeave ==
  /\ \E m \in sent : m.kind = "message" /\ m.from = "ai"
  /\ sessions.human_id # None
  /\ \E h \in DOMAIN handlers : handlers[h] = Closed

\* C5: a connect for a role held by another user is rejected: the slot keeps its
\* occupant, no join notice announces the rejected user in that role and no
\* snapshot tells the rejected user that the role is theirs.
RoleConflictRejected ==
  /\ last.result = "conflict" => ~last.changed
  /\ \A m \in sent : m.kind \in {"user_joined", "session_state"} => ~m.conflict

\* C6: a session that has not been completed is active exactly when all three
\* slots are filled, so the assignment that fills the last slot is the step that
\* makes it active.
ActiveIffAllFilled ==
  /\ [](sessions.state = "active" => AllFilled(sessions))
  /\ [](sessions.state = "waiting" => ~AllFilled(sessions))
  /\ [][(sessions.state = "waiting" /\ sessions'.state = "active")
          => (last'.result = "assigned" /\ ~AllFilled(sessions))]_vars

\* the assignment that filled the last slot has just been made
LastSlotFilled ==
  /\ last.result = "assigned"
  /\ last.changed
  /\ sessions.state = "active"

\* C7: a session's state never moves back: not on a join, a leave, a message or
\* an expire signal.
StateForwardOnly ==
  [][Rank(sessions'.state) >= Rank(sessions.state)]_vars

\* a participant has left a session that is active
LeftWhileActive ==
  /\ sessions.state = "active"
  /\ \E h \in DOMAIN handlers : handlers[h] = Closed

\* C8: a registered handle leaves the registry only by being replaced by a newer
\* connection of the same user or by the disconnect of its own handler; the
\* disconnect of a superseded handler leaves the newer handle registered.
StaleDisconnectNoOp ==
  [][\A u \in Users :
       (active_connections[u] # 0 /\ active_connections'[u] # active_connections[u])
         => \/ active_connections'[u] = Len(handlers') /\ Len(handlers') > Len(handlers)
            \/ Live(active_connections[u]) /\ handlers'[active_connections[u]] = Closed]_vars

\* C9: the first payload a connection receives is the session_state snapshot.
SnapshotFirst == \A m \in sent : m.first => m.kind = "session_state"

\* C10: add_participant called again with the role and user_id the slot already
\* holds changes nothing and produces no admission call.
AddParticipantIdempotent ==
  last.result = "noop" => (~last.changed /\ ~last.signalled)

\* C11: a user who held a role, went away and connects again with the same
\* user_id and role resumes the role: the slot holds that user_id afterwards,
\* the connect meets no role conflict and no further admission call is made.
ReconnectResumes ==
  (last.op = "connect" /\ <<last.user_id, last.role>> \in left) =>
    /\ last.result # "conflict"
    /\ Slot(sessions, last.role) = last.user_id
    /\ ~last.signalled

\* C12: whatever the interleaving of websocket connects and join_session
\* requests for a session id that is not yet in the table, a Session is
\* constructed only when the id is not in the table, the table keeps that one
\* object for the others, and every caller works on the object of the table.
OneSessionPerId ==
  /\ [][built' # built =>
          (~sessions.exists /\ built' = built + 1 /\ sessions'.obj = built')]_vars
  /\ [][(sessions.exists /\ sessions'.exists) => sessions'.obj = sessions.obj]_vars
  /\ [][Len(handlers') > Len(handlers) =>
          handlers'[Len(handlers')].session = sessions'.obj]_vars
  /\ [](\A h \in DOMAIN handlers :
          Live(h) => handlers[h].session \in {sessions.obj, removed.obj})

\* a join_session request that had passed its checks before the session was
\* deleted has completed on the Session that a connected handler holds too, the
\* second one constructed for the id
RacersShareSession ==
  /\ built = 2
  /\ sessions.obj = 2
  /\ last.op = "join_session"
  /\ \E h \in DOMAIN handlers : Live(h) /\ handlers[h].session = 2

\* C13: once delete_session has removed the session, an inbound message on a
\* connection that was attached to it is not routed through the removed
\* Session object: no participant receives a message of the removed session.
RemovedSessionSilent ==
  \A m \in sent :
    m.kind = "message" => ~(removed.exists /\ m.session = removed.obj)

\* C14: on a completed session every role assignment and every message routing
\* ends in the terminal-state error, leaves the slots and the state as they
\* were, makes no admission call and delivers nothing to the participants (the
\* snapshot that answers the caller aside).
TerminalStateFinal ==
  last.result = "terminal" =>
    /\ ~last.changed
    /\ ~last.signalled
    /\ \A m \in sent : m.kind = "session_state"

\* C15: a message from a user_id that holds no role slot of the session is
\* dropped: nothing is delivered for it, and routing leaves the session's slots
\* and state as they were.
UnknownSenderDropped ==
  /\ [](last.result = "unknown_sender" => sent = {})
  /\ []((last.op = "route_message" /\ ~removed.exists /\
         last.user_id \notin get_all_participants(sessions))
          => last.result = "unknown_sender")
  /\ [][last'.op = "route_message" =>
          (sessions' = sessions /\ removed' = removed)]_vars

\* a user whose connect for the human role met another occupant has sent a text
\* while the judge of the running session is connected
UnknownSenderSent ==
  /\ ~removed.exists
  /\ last.op = "route_message"
  /\ last.user_id \notin get_all_participants(sessions)
  /\ last.result = "unknown_sender"
  /\ sessions.human_id # None
  /\ sessions.judge_id # None
  /\ is_connected(active_connections, sessions.judge_id)

\* C16: however the admission call ends (200, another status, a timeout, an
\* exception), it leaves the connections alone: no handler is moved, no handle is
\* taken out of the registry and the session's state and slots stay as they
\* are; and the handler that created the task went on to its snapshot without
\* waiting for it.
AdmissionOutcomeIgnored ==
  /\ [][done' # done =>
          UNCHANGED <<sessions, removed, db, active_connections, handlers>>]_vars
  /\ [][(last'.op = "connect" /\ last'.signalled) =>
          /\ triggers' = triggers + 1
          /\ done' = done
          /\ handlers'[Len(handlers')].pc \in {"notified", "open"}
          /\ active_connections'[last'.user_id] = Len(handlers')]_vars

\* the admission call has failed and the human whose connect created the task
\* is registered, has had its snapshot and holds its slot
AdmissionFailedHumanStays ==
  /\ settled \in {"non200", "timeout", "exception"}
  /\ \E h \in DOMAIN handlers :
       /\ Live(h)
       /\ handlers[h].role = "human"
       /\ handlers[h].pc = "open"
       /\ ~handlers[h].fresh
       /\ active_connections[handlers[h].user_id] = h
       /\ SessionOf(h).human_id = handlers[h].user_id

\* C17: after any sequence of create_session and delete_session calls,
\* get_session(id) returns the stored record exactly when a session with that id
\* has been created and not deleted since, find_session(join_code = c) returns a
\* record with that join code exactly when such a session is there, and
\* get_session returns nothing for an id that has just been deleted.
StoreTracksCreation ==
  /\ \A id \in SessionIds :
       /\ get_session(store, id) = stored[id]
       /\ find_session(store, id, None) = stored[id]
  /\ \A c \in JoinCodes :
       LET r == find_session(store, None, c)
       IN IF \E id \in SessionIds : stored[id].join_code = c
            THEN r.join_code = c /\ r = stored[r.session_id]
            ELSE r = NoRecord
  /\ ret.op = "delete_session" => get_session(store, ret.session_id) = NoRecord

\* one of two sessions has been deleted and the other is still found by its
\* join code
DeletedOneOfTwo ==
  /\ ret.op = "delete_session"
  /\ ret.ok
  /\ \E c \in JoinCodes : find_session(store, None, c) # NoRecord

\* C18: add_participant_to_session on a session that is there appends exactly
\* the given participant (one more entry, the earlier entries and every other
\* session as they were) and returns true; on an unknown session id it returns
\* false and changes nothing.
AddParticipantAppends ==
  [][ret'.op = "add_participant_to_session" =>
       LET id  == ret'.session_id
           old == get_session(store, id)
           new == get_session(store', id)
       IN /\ \A o \in SessionIds \ {id} :
               get_session(store', o) = get_session(store, o)
          /\ IF old # NoRecord
               THEN /\ ret'.ok
                    /\ new.participants = Append(old.participants, ret'.participant)
                    /\ Len(new.participants) = Len(old.participants) + 1
                    /\ new.join_code = old.join_code
                    /\ Len(store') = Len(store)
               ELSE /\ ~ret'.ok
                    /\ store' = store]_vars

\* a second participant has been added to one of two stored sessions
AddedToOneOfTwo ==
  /\ ret.op = "add_participant_to_session"
  /\ ret.ok
  /\ Len(store) = 2
  /\ Len(get_session(store, ret.session_id).participants) = 2

\* C19: when a handler returns because its connection closed, every other
\* participant of the session who is connected then receives exactly one
\* user_left notice with the leaver's user_id and role, nothing goes to the
\* leaver, and a participant who is not connected is passed over without any
\* other effect.
LeaveNoticeOnce ==
  [][\A h \in DOMAIN handlers :
       (Live(h) /\ handlers'[h] = Closed) =>
         LET u      == handlers[h].user_id
             others == get_all_participants(SessionOf(h)) \ {u}
         IN /\ \A m \in sent' :
                 /\ m.kind = "user_left"
                 /\ m.subject = u
                 /\ m.role = handlers[h].role
                 /\ m.to \in others
                 /\ is_connected(active_connections', m.to)
            /\ \A p \in others :
                 is_connected(active_connections', p) =>
                   Cardinality({m \in sent' : m.to = p}) = 1
            /\ \A x \in DOMAIN handlers \ {h} :
                 handlers'[x].pc = handlers[x].pc
            /\ \A p \in Users \ {u} :
                 active_connections'[p] = active_connections[p]]_vars

\* a leave notice has reached one participant while another participant of the
\* session is not connected
LeftNoticed ==
  \E m \in sent :
    /\ m.kind = "user_left"
    /\ \E p \in get_all_participants(sessions) \ {m.subject, m.to} :
         ~is_connected(active_connections, p)

\* C20: a handler that returns vacates the role slot of its user, so a connect
\* by a different user_id for a role whose occupant has left and has no
\* connection any more meets no role conflict.
VacatedSeatTaken ==
  (last.op = "connect" /\ last.result = "conflict") =>
    ~ /\ <<Slot(sessions, last.role), last.role>> \in left
      /\ \A h \in DOMAIN handlers :
           Live(h) => handlers[h].user_id # Slot(sessions, last.role)

\* C21: join_session admits only while the session is waiting: once the session
\* is active or completed a join request changes neither the participants of
\* the record nor the slots of the Session
JoinOnlyWhileWaiting ==
  [][(db.exists /\ sessions.exists /\ sessions.state # "waiting")
       => /\ db'.participants = db.participants
          /\ get_all_participants(sessions') = get_all_participants(sessions)]_vars

\* C22: a websocket connect whose role is none of judge, human and ai is
\* rejected at the boundary: it changes no slot and no state, no join notice
\* announces it, and its handler never gets to the receive loop that routes
InvalidRoleRejected ==
  /\ (last.op = "connect" /\ last.role \notin Roles) => ~last.changed
  /\ \A m \in sent : m.kind = "user_joined" => m.role \in Roles
  /\ \A h \in DOMAIN handlers :
       handlers[h].pc = "open" => handlers[h].role \in Roles

\* C26: whenever a websocket handler ends, by its client going away or by an
\* error raised while receiving or routing, the handle of its user is removed
\* from the registry and every remaining participant with a handle is sent a
\* leave notice
HandlerEndCleansUp ==
  [][\A h \in DOMAIN handlers :
       (handlers[h] # Closed /\ handlers'[h] = Closed)
         => LET u == handlers[h].user_id
            IN /\ active_connections'[u] = 0
               /\ \A p \in get_all_participants(SessionOf(h)) \ {u} :
                    is_connected(active_connections', p)
                      => \E m \in sent' : /\ m.kind = "user_left"
                                          /\ m.to = p
                                          /\ m.subject = u]_vars

\* C23: under any interleaving of join_session requests the participants of the
\* record never number more than max_participants, and a join that would go
\* over is refused with "Session is full" and changes nothing
ParticipantsWithinMax ==
  [][/\ Len(db'.participants) <= max_participants
     /\ (last'.op = "session_full" /\ last' # last)
          => (db' = db /\ sessions' = sessions /\ triggers' = triggers)]_vars

\* C24: under any interleaving of join_session requests, two of one user at
\* once included, the record lists each user_id at most once, and a join by a
\* user it lists returns the role of the entry and changes neither the record
\* nor the Session
ListedAtMostOnce ==
  [][/\ \A i, k \in 1..Len(db'.participants) :
          db'.participants[i].user_id = db'.participants[k].user_id => i = k
     /\ (last'.op = "already_in_session" /\ last' # last)
          => /\ db' = db /\ sessions' = sessions /\ triggers' = triggers
             /\ \E i \in 1..Len(db.participants) :
                  /\ db.participants[i].user_id = last'.user_id
                  /\ db.participants[i].role = last'.role]_vars

\* C25: join_session reports success only if the user was added: a request
\* that finds the record deleted when it adds the participant does not return
\* "Joined session successfully" (the return of a step whose op is
\* join_session), constructs no Session and creates no admission task
JoinReportsOnlyIfAdded ==
  [][(joining' # joining /\ joining' \subseteq joining /\ ~db.exists)
       => /\ last'.op # "join_session"
          /\ sessions' = sessions
          /\ built' = built
          /\ triggers' = triggers]_vars

====
